---- MODULE Spec2Model ----
(***************************************************************************)
(* Model of scripts/gen_locked.py: generation of a pinned manifest         *)
(* (locked.xml) from an input manifest, one git rev-parse per project.     *)
(*                                                                         *)
(* Text is modelled as a sequence of tokens (TLA+ strings); the string it  *)
(* stands for is the concatenation of the tokens.  A commit identifier is  *)
(* a sequence of one-character tokens, so that len() and strip() are       *)
(* computed on it character by character.  An XML element is a record      *)
(* [tag, attrs] whose attrs is the ordered attribute mapping: a sequence   *)
(* of <<key, value>> pairs with distinct keys.                             *)
(***************************************************************************)
EXTENDS Integers, Sequences, FiniteSets, TLC

VARIABLES input, allow_missing, git, file0, run, first_out,
          pc, root_in, root_out, idx, errors, trace,
          stderr, stdout, file, exit_code

vars == <<input, allow_missing, git, file0, run, first_out,
          pc, root_in, root_out, idx, errors, trace,
          stderr, stdout, file, exit_code>>

(***************************************************************************)
(* Bounds and program constants                                            *)
(***************************************************************************)
MaxChildren == 2

SHA_LEN == 40

None == <<"None">>

WORKSPACE == <<"/w">>

Whitespace == {" ", "\n", "\t"}

HexDigits == {"0", "1", "2", "3", "4", "5", "6", "7", "8", "9",
              "a", "b", "c", "d", "e", "f"}

(***************************************************************************)
(* Generic helpers                                                         *)
(***************************************************************************)
Rep(c, n) == [i \in 1..n |-> c]

Range(s) == {s[i] : i \in 1..Len(s)}

SeqsUpTo(S, n) == UNION {[1..k -> S] : k \in 0..n}

RECURSIVE Flatten(_)
Flatten(ss) == IF ss = <<>> THEN <<>> ELSE Head(ss) \o Flatten(Tail(ss))

\* str.join: sep.join(parts)
RECURSIVE JoinText(_, _)
JoinText(sep, parts) ==
    IF parts = <<>> THEN <<>>
    ELSE IF Len(parts) = 1 THEN parts[1]
    ELSE parts[1] \o sep \o JoinText(sep, Tail(parts))

\* substring test on token sequences
Contains(text, part) ==
    \E i \in 0..(Len(text) - Len(part)) :
        \A j \in 1..Len(part) : text[i + j] = part[j]

\* str.strip(): drop leading and trailing whitespace
RECURSIVE LStrip(_)
LStrip(s) == IF s # <<>> /\ Head(s) \in Whitespace THEN LStrip(Tail(s)) ELSE s

RECURSIVE RStrip(_)
RStrip(s) ==
    IF s # <<>> /\ s[Len(s)] \in Whitespace
    THEN RStrip(SubSeq(s, 1, Len(s) - 1)) ELSE s

Strip(s) == RStrip(LStrip(s))

(***************************************************************************)
(* Attribute mappings (dict) and element trees                             *)
(***************************************************************************)
Has(attrs, k) == \E i \in 1..Len(attrs) : attrs[i][1] = k

\* dict.get(k, default)
Get(attrs, k, default) ==
    IF Has(attrs, k)
    THEN attrs[CHOOSE i \in 1..Len(attrs) : attrs[i][1] = k][2]
    ELSE default

\* Python truthiness of an Optional[str]
Truthy(v) == v # None /\ v # <<>>

\* Element.findall(tag): direct children with the tag, in document order
FindAll(children, tag) ==
    LET IsTag(e) == e.tag = tag IN SelectSeq(children, IsTag)

\* os.path.join(workspace, path) for a relative path
PathJoin(ws, path) == ws \o <<"/">> \o path

(***************************************************************************)
(* git -C repo_path rev-parse HEAD: the external command.  `git` maps a    *)
(* directory to the kind of result the command gives there.                *)
(***************************************************************************)
DirA == PathJoin(WORKSPACE, <<"a">>)
DirP == PathJoin(WORKSPACE, <<"p">>)
DirRoot == PathJoin(WORKSPACE, <<>>)

Dirs == {DirA, DirP, DirRoot}

ShaChar(dir) == IF dir = DirA THEN "a" ELSE IF dir = DirP THEN "b" ELSE "c"

GitKinds == {"fail", "good", "nonhex", "long", "short"}

\* what the command prints (stdout and stderr combined) and its exit status
GitCommand(dir, kind) ==
    IF kind = "fail"
    THEN [rc |-> 128, out |-> <<"fatal: not a git repository", "\n">>]
    ELSE IF kind = "good"
    THEN [rc |-> 0, out |-> Rep(ShaChar(dir), SHA_LEN) \o <<"\n">>]
    ELSE IF kind = "nonhex"
    THEN [rc |-> 0, out |-> Rep(ShaChar(dir), SHA_LEN - 1) \o <<"z", "\n">>]
    ELSE IF kind = "long"
    THEN [rc |-> 0, out |-> Rep(ShaChar(dir), SHA_LEN + 1) \o <<"\n">>]
    ELSE [rc |-> 0, out |-> Rep(ShaChar(dir), SHA_LEN - 1) \o <<"\n">>]

\* the sanity check of run_git_rev_parse
BadSha_NoCheck(sha) == FALSE
BadSha(sha) == Len(sha) # SHA_LEN

\* run_git_rev_parse(repo_path): [ok, sha] or the exception raised [ok, msg]
run_git_rev_parse(repo_path, gitf) ==
    LET res == GitCommand(repo_path, gitf[repo_path])
        sha == Strip(res.out)
    IN  IF res.rc # 0
        THEN [ok |-> FALSE,
              msg |-> <<"Failed to resolve HEAD for ">> \o repo_path
                      \o <<": ">> \o Strip(res.out)]
        ELSE IF BadSha(sha)
        THEN [ok |-> FALSE,
              msg |-> <<"unexpected SHA length for ">> \o repo_path
                      \o <<": ">> \o sha]
        ELSE [ok |-> TRUE, sha |-> sha]

(***************************************************************************)
(* build_locked, piece by piece                                            *)
(***************************************************************************)
\* lines 74-76: for tag in ("remote", "default"): append every such child
Preserved_DefaultFirst(children) ==
    FindAll(children, "default") \o FindAll(children, "remote")
Preserved(children) ==
    FindAll(children, "remote") \o FindAll(children, "default")

\* lines 82-83: name = get("name") or get("path"); path = get("path", name)
ProjectName(attrs) ==
    IF Truthy(Get(attrs, "name", None))
    THEN Get(attrs, "name", None) ELSE Get(attrs, "path", None)

ProjectPath(attrs) == Get(attrs, "path", ProjectName(attrs))

\* lines 99-100: drop revision, then set revision = sha (appended last)
PinnedAttrs_OnlyRevision(attrs, sha) == << <<"revision", sha>> >>
PinnedAttrs(attrs, sha) ==
    LET Keep(kv) == kv[1] # "revision"
    IN  SelectSeq(attrs, Keep) \o << <<"revision", sha>> >>

\* errors.append(entry)
AppendError_OnlyLast(errs, entry) == <<entry>>
AppendError(errs, entry) == Append(errs, entry)

\* line 103: if errors and not allow_missing
MustFail_Never(errs, allow) == FALSE
MustFail(errs, allow) == errs # <<>> /\ ~allow

\* ET.parse succeeds exactly on well-formed XML; the root tag is not looked at
ParseOK_Always(inp) == TRUE
ParseOK(inp) == inp.wellformed

NoPathError == <<"project without name/path attribute">>

\* lines 81-101: one iteration of the project loop, as a state update
ProjectIter(proj, allow, gitf, st) ==
    LET attrs == proj.attrs
        path == ProjectPath(attrs)
    IN  IF ~Truthy(path)
        THEN [st EXCEPT !.errors = AppendError(@, NoPathError),
                        !.trace = Append(@, [kind |-> "invalid", dir |-> <<>>])]
        ELSE LET repo_path == PathJoin(WORKSPACE, path)
                 r == run_git_rev_parse(repo_path, gitf)
             IN  IF ~r.ok
                 THEN IF allow
                      THEN [st EXCEPT
                              !.stderr = Append(@, <<"warn: skipping ">> \o path
                                                   \o <<": ">> \o r.msg),
                              !.trace = Append(@, [kind |-> "warned",
                                                   dir |-> repo_path])]
                      ELSE [st EXCEPT
                              !.errors = AppendError(@, path \o <<": ">> \o r.msg),
                              !.trace = Append(@, [kind |-> "error",
                                                   dir |-> repo_path])]
                 ELSE [st EXCEPT
                         !.root_out = Append(@, [tag |-> "project",
                                                 attrs |-> PinnedAttrs(attrs, r.sha)]),
                         !.trace = Append(@, [kind |-> "pinned",
                                              dir |-> repo_path])]

(***************************************************************************)
(* Inputs                                                                  *)
(***************************************************************************)
NameVals == {None, <<>>, <<"a">>}
PathVals == {None, <<>>, <<"p">>}

MkProject(n, p) ==
    [tag |-> "project",
     attrs |-> (IF n # None THEN << <<"name", n>>, <<"revision", <<"main">>>> >>
                ELSE <<>>)
               \o (IF p # None THEN << <<"path", p>> >> ELSE <<>>)
               \o (IF p = <<"p">> THEN << <<"groups", <<"g">>>> >> ELSE <<>>)]

ProjectElems == {MkProject(n, p) : n \in NameVals, p \in PathVals}

Remote1 == [tag |-> "remote", attrs |-> << <<"name", <<"origin">>>> >>]
Default1 == [tag |-> "default", attrs |-> << <<"remote", <<"origin">>>> >>]
Default2 == [tag |-> "default", attrs |-> << <<"revision", <<"main">>>> >>]

Elems == ProjectElems \cup {Remote1, Default1, Default2}

RootTags == {"manifest", "other"}

Malformed == [wellformed |-> FALSE, root |-> "manifest", children |-> <<>>]

Inputs ==
    {Malformed} \cup
    {[wellformed |-> TRUE, root |-> t, children |-> c] :
        t \in RootTags, c \in SeqsUpTo(Elems, MaxChildren)}

GitBehaviours ==
    {g \in [Dirs -> GitKinds] : g[DirRoot] \in {"fail", "good"}}

OldFile == [kind |-> "old"]

(***************************************************************************)
(* The run                                                                 *)
(***************************************************************************)
Init ==
    /\ input \in Inputs
    /\ allow_missing \in BOOLEAN
    /\ git \in GitBehaviours
    /\ file0 = OldFile
    /\ file = OldFile
    /\ run = 1
    /\ first_out = OldFile
    /\ pc = "parse"
    /\ root_in = <<>>
    /\ root_out = <<>>
    /\ idx = 1
    /\ errors = <<>>
    /\ trace = <<>>
    /\ stderr = <<>>
    /\ stdout = <<>>
    /\ exit_code = -1

Env == <<input, allow_missing, git, file0, run, first_out>>

\* lines 67-71: ET.parse; an uncaught ParseError ends the process
Parse ==
    /\ pc = "parse"
    /\ IF ParseOK(input)
       THEN /\ root_in' = input.children
            /\ root_out' = <<>>
            /\ pc' = "copy"
            /\ UNCHANGED <<stderr, exit_code>>
       ELSE /\ stderr' = Append(stderr, <<"xml.etree.ElementTree.ParseError">>)
            /\ exit_code' = 1
            /\ pc' = "exit"
            /\ UNCHANGED <<root_in, root_out>>
    /\ UNCHANGED <<Env, idx, errors, trace, stdout, file>>

\* lines 73-79
CopyPreserved ==
    /\ pc = "copy"
    /\ root_out' = root_out \o Preserved(root_in)
    /\ errors' = <<>>
    /\ idx' = 1
    /\ pc' = "loop"
    /\ UNCHANGED <<Env, root_in, trace, stderr, stdout, file, exit_code>>

\* lines 80-101: the next project of root_in.findall("project")
PinProject ==
    /\ pc = "loop"
    /\ idx <= Len(FindAll(root_in, "project"))
    /\ LET st == ProjectIter(FindAll(root_in, "project")[idx], allow_missing, git,
                             [root_out |-> root_out, errors |-> errors,
                              trace |-> trace, stderr |-> stderr])
       IN  /\ root_out' = st.root_out
           /\ errors' = st.errors
           /\ trace' = st.trace
           /\ stderr' = st.stderr
    /\ idx' = idx + 1
    /\ UNCHANGED <<Env, pc, root_in, stdout, file, exit_code>>

\* lines 103-104: raise SystemExit(message): message to stderr, status 1
RaiseErrors ==
    /\ pc = "loop"
    /\ idx > Len(FindAll(root_in, "project"))
    /\ MustFail(errors, allow_missing)
    /\ stderr' = Append(stderr, <<"Error(s) while pinning:\n- ">>
                                \o JoinText(<<"\n- ">>, errors))
    /\ exit_code' = 1
    /\ pc' = "exit"
    /\ UNCHANGED <<Env, root_in, root_out, idx, errors, trace, stdout, file>>

\* lines 106-112 and main 139-140: write the file, print, return 0
WriteOutput ==
    /\ pc = "loop"
    /\ idx > Len(FindAll(root_in, "project"))
    /\ ~MustFail(errors, allow_missing)
    /\ file' = [kind |-> "xml",
                decl |-> <<"<?xml version=\"1.0\" encoding=\"UTF-8\"?>", "\n">>,
                root |-> "manifest",
                children |-> root_out]
    /\ stdout' = Append(stdout, <<"Wrote pinned manifest: ", "locked.xml">>)
    /\ exit_code' = 0
    /\ pc' = "exit"
    /\ UNCHANGED <<Env, root_in, root_out, idx, errors, trace, stderr>>

\* the tool is run again with the manifest it just wrote as its input
Rerun ==
    /\ pc = "exit"
    /\ run = 1
    /\ exit_code = 0
    /\ input' = [wellformed |-> TRUE, root |-> file.root, children |-> file.children]
    /\ first_out' = file
    /\ file0' = file
    /\ run' = 2
    /\ pc' = "parse"
    /\ root_in' = <<>>
    /\ root_out' = <<>>
    /\ idx' = 1
    /\ errors' = <<>>
    /\ trace' = <<>>
    /\ stderr' = <<>>
    /\ stdout' = <<>>
    /\ exit_code' = -1
    /\ UNCHANGED <<allow_missing, git, file>>

Next ==
    \/ Parse
    \/ CopyPreserved
    \/ PinProject
    \/ RaiseErrors
    \/ WriteOutput
    \/ Rerun

Spec == Init /\ [][Next]_vars

TypeOK ==
    /\ pc \in {"parse", "copy", "loop", "exit"}
    /\ run \in {1, 2}
    /\ exit_code \in {-1, 0, 1}
    /\ allow_missing \in BOOLEAN

(***************************************************************************)
(* Vocabulary of the properties                                            *)
(***************************************************************************)
InProjects == FindAll(input.children, "project")

InPreserved ==
    LET Kept(e) == e.tag \in {"remote", "default"}
    IN  SelectSeq(input.children, Kept)

HasNameOrPath(attrs) == Has(attrs, "name") \/ Has(attrs, "path")

\* the path attribute if present, otherwise the name attribute
EffectivePath(attrs) ==
    IF Has(attrs, "path") THEN Get(attrs, "path", None)
    ELSE Get(attrs, "name", None)

HasPath(attrs) == EffectivePath(attrs) # None /\ EffectivePath(attrs) # <<>>

ProjDir(attrs) == PathJoin(WORKSPACE, EffectivePath(attrs))

Resolves(dir) == run_git_rev_parse(dir, git).ok

NonRevision(attrs) ==
    LET Keep(kv) == kv[1] # "revision" IN Range(SelectSeq(attrs, Keep))

\* directories the resolver was invoked on, in invocation order
Calls ==
    LET Called(t) == t.kind # "invalid"
        c == SelectSeq(trace, Called)
    IN  [i \in 1..Len(c) |-> c[i].dir]

Warnings ==
    LET IsWarn(m) == m # <<>> /\ m[1] = "warn: skipping "
    IN  SelectSeq(stderr, IsWarn)

Finished == pc = "exit"

Succeeded == pc = "exit" /\ exit_code = 0 /\ file.kind = "xml"

OutProjects == FindAll(file.children, "project")

IsHexSha(rev) == Len(rev) = SHA_LEN /\ \A i \in 1..Len(rev) : rev[i] \in HexDigits

\* the input projects that resolve, each pinned to the resolved identifier
ExpectedPinned(projs) ==
    Flatten([i \in 1..Len(projs) |->
        IF Resolves(ProjDir(projs[i].attrs))
        THEN << [tag |-> "project",
                 nonrev |-> NonRevision(projs[i].attrs),
                 revision |-> run_git_rev_parse(ProjDir(projs[i].attrs), git).sha] >>
        ELSE <<>>])

Observed(projs) ==
    [i \in 1..Len(projs) |->
        [tag |-> projs[i].tag,
         nonrev |-> NonRevision(projs[i].attrs),
         revision |-> Get(projs[i].attrs, "revision", None)]]

\* remotes, then at most one default, then projects
SchemaOrder(children) ==
    /\ Len(FindAll(children, "default")) <= 1
    /\ children = FindAll(children, "remote") \o FindAll(children, "default")
                  \o FindAll(children, "project")

(***************************************************************************)
(* C1: in strict mode, when at least one project fails resolution, the     *)
(* output file is never written (it keeps its previous contents), the run  *)
(* ends with a non-zero status, and the error message contains the path    *)
(* of every failing project.                                               *)
(***************************************************************************)
FailingProjects ==
    {i \in 1..Len(InProjects) :
        /\ HasNameOrPath(InProjects[i].attrs)
        /\ ~Resolves(ProjDir(InProjects[i].attrs))}

C1_StrictFailureNoOutput ==
    (input.wellformed /\ ~allow_missing /\ FailingProjects # {}) =>
        /\ file = file0
        /\ Finished =>
              /\ exit_code # 0
              /\ stderr # <<>>
              /\ \A i \in FailingProjects :
                    Contains(stderr[Len(stderr)], EffectivePath(InProjects[i].attrs))

C1_Witness ==
    /\ Finished /\ ~allow_missing /\ run = 1
    /\ \E i \in FailingProjects : HasPath(InProjects[i].attrs)
    /\ \E j \in 1..Len(trace) : trace[j].kind = "pinned"
    /\ exit_code = 1

(***************************************************************************)
(* C2: for a valid manifest whose projects all have a name or path and     *)
(* all resolve, the output has the same remote/default elements and the    *)
(* same number of projects in the same order, non-revision attributes      *)
(* unchanged and revision equal to the resolved identifier.                *)
(***************************************************************************)
C2_AllResolvePinned ==
    (/\ Finished
     /\ input.wellformed /\ input.root = "manifest"
     /\ SchemaOrder(input.children)
     /\ \A i \in 1..Len(InProjects) :
           /\ HasNameOrPath(InProjects[i].attrs)
           /\ Resolves(ProjDir(InProjects[i].attrs))) =>
        /\ Succeeded
        /\ Len(file.children) = Len(InPreserved) + Len(InProjects)
        /\ SubSeq(file.children, 1, Len(InPreserved)) = InPreserved
        /\ Len(OutProjects) = Len(InProjects)
        /\ Observed(OutProjects) = ExpectedPinned(InProjects)

(***************************************************************************)
(* C3: in allow-missing mode, when every project has a name or path, the   *)
(* run succeeds, one warning is emitted per project whose resolution       *)
(* failed, and the output projects are exactly the resolved input          *)
(* projects, in input order, each pinned.                                  *)
(***************************************************************************)
C3_AllowMissingSkips ==
    (/\ Finished
     /\ input.wellformed /\ allow_missing
     /\ \A i \in 1..Len(InProjects) : HasNameOrPath(InProjects[i].attrs)) =>
        /\ Succeeded
        /\ Len(Warnings) = Cardinality(FailingProjects)
        /\ Observed(OutProjects) = ExpectedPinned(InProjects)

(***************************************************************************)
(* C4: a project with neither name nor path is a hard error in both        *)
(* modes: never copied, the error is recorded, and the run fails with no   *)
(* output file written.                                                    *)
(***************************************************************************)
C4_NamelessAlwaysFatal ==
    (/\ input.wellformed
     /\ \E i \in 1..Len(InProjects) : ~HasNameOrPath(InProjects[i].attrs)) =>
        /\ file = file0
        /\ Finished =>
              /\ exit_code # 0
              /\ \E k \in 1..Len(errors) : errors[k] = NoPathError

(***************************************************************************)
(* C5: every revision attribute of every project in a written output is a  *)
(* 40-character hexadecimal string (as claimed).                           *)
(***************************************************************************)
C5_RevisionsAreHex ==
    Succeeded =>
        \A i \in 1..Len(OutProjects) :
            IsHexSha(Get(OutProjects[i].attrs, "revision", None))

(***************************************************************************)
(* C5 (amended): resolution succeeds exactly when the command exits        *)
(* successfully and its trimmed output is 40 characters long; every        *)
(* revision in a written output is such a trimmed output, 40 characters,   *)
(* never truncated or padded.                                              *)
(***************************************************************************)
C5_RevisionsHaveShaLength ==
    /\ \A i \in 1..Len(trace) :
          trace[i].kind # "invalid" =>
              LET res == GitCommand(trace[i].dir, git[trace[i].dir])
              IN  (trace[i].kind = "pinned")
                      <=> (res.rc = 0 /\ Len(Strip(res.out)) = SHA_LEN)
    /\ Succeeded =>
          /\ Len(OutProjects) =
                Cardinality({i \in 1..Len(trace) : trace[i].kind = "pinned"})
          /\ \A i \in 1..Len(OutProjects) :
                LET rev == Get(OutProjects[i].attrs, "revision", None)
                IN  /\ Len(rev) = SHA_LEN
                    /\ \A j \in 1..Len(rev) : rev[j] \notin Whitespace
                    /\ \E d \in Dirs :
                          rev = Strip(GitCommand(d, git[d]).out)

C5_Witness ==
    /\ Succeeded /\ run = 1
    /\ \E i \in 1..Len(trace) :
          trace[i].kind = "pinned" /\ git[trace[i].dir] = "nonhex"
    /\ \E i \in 1..Len(trace) :
          trace[i].kind = "warned" /\ git[trace[i].dir] \in {"long", "short"}

(***************************************************************************)
(* C6: an input that is malformed or whose root tag is not `manifest`      *)
(* fails to parse: no project is resolved, no output file is written and   *)
(* the exit status is non-zero (as claimed).                               *)
(***************************************************************************)
C6_WrongRootIsParseError ==
    (~input.wellformed \/ input.root # "manifest") =>
        /\ Calls = <<>>
        /\ file = file0
        /\ Finished => exit_code # 0

(***************************************************************************)
(* C6 (amended): malformed XML is a fatal parse error raised before any    *)
(* resolver call (no project resolved, no output, non-zero status); the    *)
(* root tag is not checked, so a well-formed input is never a parse error  *)
(* and all its projects are attempted whatever its root tag.               *)
(***************************************************************************)
ParseErrorReported ==
    \E k \in 1..Len(stderr) : stderr[k] = <<"xml.etree.ElementTree.ParseError">>

C6_MalformedIsParseError ==
    /\ ~input.wellformed =>
          /\ trace = <<>>
          /\ file = file0
          /\ Finished => (exit_code # 0 /\ ParseErrorReported)
    /\ input.wellformed =>
          /\ ~ParseErrorReported
          /\ Finished => Len(trace) = Len(InProjects)

C6_Witness ==
    /\ Finished /\ ~input.wellformed /\ exit_code = 1 /\ ParseErrorReported

(***************************************************************************)
(* C7: in strict mode the resolver is invoked exactly once per project     *)
(* that has a path, in document order, also after earlier failures; the    *)
(* run fails only after the last project, and the error list has one       *)
(* entry per failed or invalid project, in document order, resolution      *)
(* entries being "<path>: <failure detail>".                               *)
(***************************************************************************)
ExpectedCalls ==
    Flatten([i \in 1..Len(InProjects) |->
        IF HasPath(InProjects[i].attrs)
        THEN <<ProjDir(InProjects[i].attrs)>> ELSE <<>>])

ExpectedErrors ==
    Flatten([i \in 1..Len(InProjects) |->
        LET attrs == InProjects[i].attrs
        IN  IF ~HasPath(attrs) THEN <<NoPathError>>
            ELSE IF ~Resolves(ProjDir(attrs))
            THEN << EffectivePath(attrs) \o <<": ">>
                    \o run_git_rev_parse(ProjDir(attrs), git).msg >>
            ELSE <<>>])

C8_Idempotent ==
    (run = 2 /\ Finished) => (Succeeded /\ file = first_out)

C8_Witness ==
    /\ run = 2 /\ Finished
    /\ Len(OutProjects) >= 1
    /\ Len(FindAll(file.children, "remote")) >= 1

(***************************************************************************)
(* C9: the remote/default elements of the output are the remote/default    *)
(* children of the input in document order, all before every project (as   *)
(* claimed).                                                               *)
(***************************************************************************)
C9_PreservedInDocumentOrder ==
    Succeeded =>
        /\ Len(file.children) >= Len(InPreserved)
        /\ SubSeq(file.children, 1, Len(InPreserved)) = InPreserved
        /\ \A i \in (Len(InPreserved) + 1)..Len(file.children) :
              file.children[i].tag = "project"

(***************************************************************************)
(* C9 (amended): the output holds all remote children in document order,   *)
(* then all default children in document order, each unchanged, and all    *)
(* of them precede every project element.                                  *)
(***************************************************************************)
C9_PreservedGroupedByTag ==
    Succeeded =>
        LET grouped == FindAll(input.children, "remote")
                       \o FindAll(input.children, "default")
        IN  /\ Len(file.children) >= Len(grouped)
            /\ SubSeq(file.children, 1, Len(grouped)) = grouped
            /\ \A i \in (Len(grouped) + 1)..Len(file.children) :
                  file.children[i].tag = "project"

C9_Witness ==
    /\ Succeeded /\ run = 1
    /\ Len(input.children) = 2
    /\ input.children[1].tag = "default"
    /\ input.children[2].tag = "remote"

(***************************************************************************)
(* C10: a project is rejected as "project without name/path attribute" if  *)
(* and only if neither attribute is present; otherwise the resolver is     *)
(* called on the workspace joined with the path attribute if present and   *)
(* else the name attribute.                                                *)
(***************************************************************************)
C10_RejectedIffNeitherPresent ==
    input.wellformed =>
        \A i \in 1..Len(trace) :
            LET attrs == InProjects[i].attrs
            IN  /\ (trace[i].kind = "invalid") <=> ~HasNameOrPath(attrs)
                /\ HasNameOrPath(attrs) => trace[i].dir = ProjDir(attrs)
====
